---- MODULE Spec2Model ----
(***************************************************************************)
(* Review ingestion-and-analysis pipeline of review-analyzer:              *)
(*   - areSimilarReviews and the hybrid merge   (services/hybridScraper.ts) *)
(*   - filterReviewsForAnalysis                 (routes/analysis.ts)        *)
(*   - analyzeReview / analyzeReviewFast and the windowed batch engine      *)
(*                                              (services/openaiService.ts) *)
(*   - the project status machine    (routes/projects.ts, routes/analysis.ts)*)
(*                                                                          *)
(* A text is a sequence of one-character strings.  Numbers that the code    *)
(* keeps as floats in [-1,1] are kept in hundredths (0.5 is 50).            *)
(* Each component has its own specification over the same variables; the    *)
(* variables of the other components stay at their idle values.             *)
(***************************************************************************)
EXTENDS Integers, Sequences, FiniteSets, TLC

VARIABLES
    \* ---- areSimilarReviews applied to a pair of texts
    text1, text2, simResult,
    \* ---- filterReviewsForAnalysis applied to a list, and to its own result
    fReviews, fOnce, fTwice, fpc,
    \* ---- scrapeAllReviewsHybrid: its position, its locals, the reviews table
    \*      and the value it returns
    hpc, placesResult, scrapingResult, allReviews, errors, insertError, dbReviews,
    hybridResult,
    \* ---- analyzeReview / analyzeReviewFast applied to one review and one
    \*      outcome of the chat completion call
    aText, aRating, aResponse, aResult, apc,
    \* ---- batchAnalyzeReviewsFast / batchAnalyzeReviewsUltraFast: arguments, loop
    \*      index, requests in flight, settled promises of the window, what each
    \*      request received, the results array, position
    bReviews, bConcurrency, bMode, bi, bPending, bSettled, bOutcome, bResults, bpc,
    \* ---- one project: its row, its rows of reviews and review_analyses, the
    \*      handler that is running and its locals, the last HTTP response
    projectStatus, total_reviews, analyzed_reviews, reviewsTable, analysesTable,
    ppc, scrapeOutcome, runMode, unanalyzedCount, filteredReviews, skippedCount,
    analysisResults, saveIndex, analyzedCount, httpResponse,
    \* ---- what the environment saw of the project's handlers: the chat
    \*      completion requests the analysis route issued since it was last
    \*      called, whether the ingest wrote total_reviews, and how the final
    \*      update of the last analysis run ended
    llmCalls, totalSetByIngest, finalUpdate,
    \* ---- pollForResults: the attempt of its loop, the requests it has issued,
    \*      the seconds it has waited, the last answer, the value it returns
    pollAttempt, pollRequests, pollWaited, pollAnswer, pollResult, pollpc,
    \* ---- one source provider applied to the records it fetched
    fetched, providerName, providerInsertFails, providerResult, providerpc,
    \* ---- a scroll loop of a browser scraper: which loop, its attempt, the
    \*      counts and the streak of loadAllReviews (for the aggressive loop,
    \*      which keeps none, as someone watching the page would keep them),
    \*      whether a page call threw, position
    scrollLoop, scrollAttempt, previousCount, currentCount, noNewReviewsCount,
    scrollThrew, scrollpc,
    \* ---- two analysis requests on one project: the project's reviews, its
    \*      analysis rows, its row's counter and status, each request's locals
    \*      and position, and what a client that lists the projects has read
    raceReviews, raceAnalyses, raceAnalyzed, raceStatus, runs, reader

simVars == <<text1, text2, simResult>>

filterVars == <<fReviews, fOnce, fTwice, fpc>>

hybridVars == <<hpc, placesResult, scrapingResult, allReviews, errors, insertError,
                dbReviews, hybridResult>>

analyzeVars == <<aText, aRating, aResponse, aResult, apc>>

batchVars == <<bReviews, bConcurrency, bMode, bi, bPending, bSettled, bOutcome, bResults, bpc>>

projectVars == <<projectStatus, total_reviews, analyzed_reviews, reviewsTable, analysesTable,
                 ppc, scrapeOutcome, runMode, unanalyzedCount, filteredReviews, skippedCount,
                 analysisResults, saveIndex, analyzedCount, httpResponse,
                 llmCalls, totalSetByIngest, finalUpdate>>

pollVars == <<pollAttempt, pollRequests, pollWaited, pollAnswer, pollResult, pollpc>>

providerVars == <<fetched, providerName, providerInsertFails, providerResult, providerpc>>

scrollVars == <<scrollLoop, scrollAttempt, previousCount, currentCount, noNewReviewsCount,
                scrollThrew, scrollpc>>

raceVars == <<raceReviews, raceAnalyses, raceAnalyzed, raceStatus, runs, reader>>

serviceVars == <<pollVars, providerVars, scrollVars, raceVars>>

vars == <<simVars, filterVars, hybridVars, analyzeVars, batchVars, projectVars, serviceVars>>

-----------------------------------------------------------------------------
(* JavaScript string built-ins used by the code *)

UpperCaseLetters == <<"A","B","C","D","E","F","G","H","I","J","K","L","M",
                      "N","O","P","Q","R","S","T","U","V","W","X","Y","Z">>

LowerCaseLetters == <<"a","b","c","d","e","f","g","h","i","j","k","l","m",
                      "n","o","p","q","r","s","t","u","v","w","x","y","z">>

WhitespaceChars == {" ", "\t", "\n"}

\* String.prototype.toLowerCase on one character
toLowerChar(c) ==
    IF \E k \in 1..Len(UpperCaseLetters) : UpperCaseLetters[k] = c
    THEN LowerCaseLetters[CHOOSE k \in 1..Len(UpperCaseLetters) : UpperCaseLetters[k] = c]
    ELSE c

\* String.prototype.toLowerCase
toLowerCase(s) == [k \in 1..Len(s) |-> toLowerChar(s[k])]

\* String.prototype.includes: sub occurs in s as a contiguous run
includes(s, sub) ==
    \E k \in 0..(Len(s) - Len(sub)) : SubSeq(s, k + 1, k + Len(sub)) = sub

\* String.prototype.split(/\s+/), left to right: `acc` holds the finished tokens,
\* `cur` the token being read, `inGap` whether the last character was whitespace.
\* A leading or trailing whitespace run yields an empty token, and "" yields [""].
RECURSIVE splitFrom(_, _, _, _, _)
splitFrom(s, k, acc, cur, inGap) ==
    IF k > Len(s) THEN Append(acc, cur)
    ELSE IF s[k] \in WhitespaceChars
         THEN IF inGap THEN splitFrom(s, k + 1, acc, cur, TRUE)
              ELSE splitFrom(s, k + 1, Append(acc, cur), <<>>, TRUE)
         ELSE splitFrom(s, k + 1, acc, Append(cur, s[k]), FALSE)

splitWhitespace(s) == splitFrom(s, 1, <<>>, <<>>, FALSE)

\* Array.prototype.includes on an array of words
wordsInclude(words, w) == \E k \in 1..Len(words) : words[k] = w

\* Array.prototype.filter(...).length for words1.filter(word => words2.includes(word))
commonWordsLength(words1, words2) ==
    Cardinality({k \in 1..Len(words1) : wordsInclude(words2, words1[k])})

minOf(a, b) == IF a < b THEN a ELSE b

-----------------------------------------------------------------------------
(* hybridScraper.ts: areSimilarReviews *)

\* commonWords.length > Math.min(words1.length, words2.length) * 0.7
overlapExceeds(common, smaller) == 10 * common > 7 * smaller

\* areSimilarReviews without its guard on empty texts
areSimilarReviewsNoGuard(t1, t2) ==
    LET shorter == IF Len(t1) < Len(t2) THEN t1 ELSE t2
        longer  == IF Len(t1) >= Len(t2) THEN t1 ELSE t2
        words1  == splitWhitespace(toLowerCase(t1))
        words2  == splitWhitespace(toLowerCase(t2))
    IN  \/ includes(toLowerCase(longer), toLowerCase(shorter))
        \/ overlapExceeds(commonWordsLength(words1, words2),
                          minOf(Len(words1), Len(words2)))

areSimilarReviews(t1, t2) ==
    IF t1 = <<>> \/ t2 = <<>> THEN FALSE
    ELSE LET shorter == IF Len(t1) < Len(t2) THEN t1 ELSE t2
             longer  == IF Len(t1) >= Len(t2) THEN t1 ELSE t2
             words1  == splitWhitespace(toLowerCase(t1))
             words2  == splitWhitespace(toLowerCase(t2))
         IN  \/ includes(toLowerCase(longer), toLowerCase(shorter))
             \/ overlapExceeds(commonWordsLength(words1, words2),
                               minOf(Len(words1), Len(words2)))

-----------------------------------------------------------------------------
(* routes/analysis.ts: filterReviewsForAnalysis *)

\* the code units of the two emoji of the stoplist (each is a surrogate pair)
ThumbsUpEmoji == <<"U+D83D", "U+DC4D">>

ThumbsDownEmoji == <<"U+D83D", "U+DC4E">>

spamPatterns == {
    <<"g","o","o","d">>, <<"b","a","d">>, <<"o","k">>, <<"n","i","c","e">>,
    <<"g","r","e","a","t">>, <<"t","e","r","r","i","b","l","e">>,
    <<"a","w","f","u","l">>, <<"t","h","u","m","b","s"," ","u","p">>,
    ThumbsUpEmoji, ThumbsDownEmoji,
    <<"l","i","k","e">>, <<"d","i","s","l","i","k","e">> }

\* text.replace(/[^a-z]/g, '').length
lettersAZ(text) ==
    Cardinality({k \in 1..Len(text) :
                   \E j \in 1..Len(LowerCaseLetters) : LowerCaseLetters[j] = text[k]})

MinTextLength == 10

MinLetters == 5

\* the length test with <= in place of <
keepReviewOffByOne(review) ==
    LET text == toLowerCase(review.original_text)
    IN  IF Len(text) <= MinTextLength THEN FALSE
        ELSE IF text \in spamPatterns THEN FALSE
        ELSE IF lettersAZ(text) < MinLetters THEN FALSE
        ELSE TRUE

\* the callback of reviews.filter: false drops the review
keepReview(review) ==
    LET text == toLowerCase(review.original_text)
    IN  IF Len(text) < MinTextLength THEN FALSE
        ELSE IF text \in spamPatterns THEN FALSE
        ELSE IF lettersAZ(text) < MinLetters THEN FALSE
        ELSE TRUE

\* Array.prototype.filter with keepReview, element by element from position k
RECURSIVE filterFrom(_, _)
filterFrom(reviews, k) ==
    IF k > Len(reviews) THEN <<>>
    ELSE IF keepReview(reviews[k])
         THEN <<reviews[k]>> \o filterFrom(reviews, k + 1)
         ELSE filterFrom(reviews, k + 1)

\* a filter that removes in place while it iterates: after a removal the next
\* element slides into the current slot and is never looked at
RECURSIVE removeInPlaceFrom(_, _)
removeInPlaceFrom(reviews, k) ==
    IF k > Len(reviews) THEN <<>>
    ELSE IF keepReview(reviews[k])
         THEN <<reviews[k]>> \o removeInPlaceFrom(reviews, k + 1)
         ELSE IF k + 1 > Len(reviews) THEN <<>>
              ELSE <<reviews[k + 1]>> \o removeInPlaceFrom(reviews, k + 2)

filterRemovingInPlace(reviews) == removeInPlaceFrom(reviews, 1)

filterReviewsForAnalysis(reviews) == filterFrom(reviews, 1)

-----------------------------------------------------------------------------
(* Bounds and input sets of the filter check *)

MaxFilterList == 2

Rep(c, n) == [k \in 1..n |-> c]

\* n letters followed by m digits, around the two thresholds; upper-case variants;
\* stoplist phrases in both cases
FilterTexts ==
    {Rep("a", n) \o Rep("1", m) : n \in {0, 4, 5, 9, 10}, m \in {0, 5, 6}}
    \cup {Rep("A", n) \o Rep("1", m) : n \in {4, 5}, m \in {5, 6}}
    \cup {<<"g","o","o","d">>, <<"G","O","O","D">>,
          <<"t","h","u","m","b","s"," ","u","p">>, ThumbsUpEmoji}

RECURSIVE ReviewListsOfLen(_)
ReviewListsOfLen(n) ==
    IF n = 0 THEN {<<>>}
    ELSE {Append(l, [id |-> n, original_text |-> t]) :
             l \in ReviewListsOfLen(n - 1), t \in FilterTexts}

FilterInputs == UNION {ReviewListsOfLen(n) : n \in 0..MaxFilterList}

FilterIdle == fReviews = <<>> /\ fOnce = <<>> /\ fTwice = <<>> /\ fpc = "idle"

FilterInit == fReviews \in FilterInputs /\ fOnce = <<>> /\ fTwice = <<>> /\ fpc = "input"

\* filterReviewsForAnalysis(reviews)
FilterOnce ==
    /\ fpc = "input"
    /\ fOnce' = filterReviewsForAnalysis(fReviews)
    /\ fpc' = "once"
    /\ UNCHANGED <<fReviews, fTwice>>
    /\ UNCHANGED <<simVars, hybridVars, analyzeVars, batchVars, projectVars, serviceVars>>

\* filterReviewsForAnalysis applied to the list it returned
FilterAgain ==
    /\ fpc = "once"
    /\ fTwice' = filterReviewsForAnalysis(fOnce)
    /\ fpc' = "twice"
    /\ UNCHANGED <<fReviews, fOnce>>
    /\ UNCHANGED <<simVars, hybridVars, analyzeVars, batchVars, projectVars, serviceVars>>

-----------------------------------------------------------------------------
(* JavaScript values as JSON.parse and the regex extraction produce them.     *)
(* A string carries a label, its length, and the number parseFloat reads from *)
(* it (if any); numbers are in hundredths.                                    *)

JsUndefined == [t |-> "undefined"]

JsNull == [t |-> "null"]

JsNumber(n) == [t |-> "number", nan |-> FALSE, v |-> n]

JsNaN == [t |-> "number", nan |-> TRUE, v |-> 0]

JsString(label, len) == [t |-> "string", s |-> label, len |-> len, numeric |-> FALSE, v |-> 0]

JsNumericString(n) == [t |-> "string", s |-> "digits", len |-> 4, numeric |-> TRUE, v |-> n]

JsArray(items) == [t |-> "array", items |-> items]

\* a nested object; `throwing` marks one whose conversion to a string throws
\* (its own toString property is not callable)
JsObject(throwing) == [t |-> "object", throwing |-> throwing]

\* whether String(x) throws
RECURSIVE toStringThrows(_)
toStringThrows(x) ==
    CASE x.t = "object" -> x.throwing
      [] x.t = "array"  -> \E k \in 1..Len(x.items) : toStringThrows(x.items[k])
      [] OTHER          -> FALSE

\* parseFloat(x) where it does not throw: [nan, v]
RECURSIVE parseFloatValue(_)
parseFloatValue(x) ==
    CASE x.t = "number" -> [nan |-> x.nan, v |-> x.v]
      [] x.t = "string" -> [nan |-> ~x.numeric, v |-> x.v]
      [] x.t = "array"  -> IF x.items = <<>> \/ x.items[1].t \in {"undefined", "null"}
                           THEN [nan |-> TRUE, v |-> 0]
                           ELSE parseFloatValue(x.items[1])
      [] OTHER          -> [nan |-> TRUE, v |-> 0]

\* parseFloat(x) || dflt
parseFloatOr(x, dflt) ==
    LET p == parseFloatValue(x)
    IN  IF p.nan \/ p.v = 0 THEN dflt ELSE p.v

maxOf(a, b) == IF a > b THEN a ELSE b

\* result.<name> of a parsed value that is not null: a JSON object has its fields,
\* any other value has none of these properties
getField(result, name) == IF result.t = "record" THEN result[name] ELSE JsUndefined

-----------------------------------------------------------------------------
(* services/openaiService.ts: the single-review analysis *)

NoRating == 0

validCategories == {"positive", "negative", "neutral"}

inferCategoryFromRating(rating) ==
    IF rating = NoRating THEN "neutral"
    ELSE IF rating >= 4 THEN "positive"
    ELSE IF rating <= 2 THEN "negative"
    ELSE "neutral"

\* the length of reviewText.split(' ').slice(0, 3).join(' '): the text up to its
\* third space
RECURSIVE firstWordsLengthFrom(_, _, _)
firstWordsLengthFrom(text, k, spaces) ==
    IF k > Len(text) THEN Len(text)
    ELSE IF text[k] = " "
         THEN IF spaces = 2 THEN k - 1
              ELSE firstWordsLengthFrom(text, k + 1, spaces + 1)
         ELSE firstWordsLengthFrom(text, k + 1, spaces)

\* the number of characters of a category name
categoryLength(category) == IF category = "neutral" THEN 7 ELSE 8

FallbackConfidence == 60

\* "Customer review expressing " and " sentiment about the service"
FallbackSummaryFixedLength == 55

createFallbackAnalysis(reviewText, rating) ==
    LET category == inferCategoryFromRating(rating)
    IN  [primary_category |-> category,
         primary_confidence |-> FallbackConfidence,
         secondary_categories |-> <<JsString("general", 7)>>,
         themes |-> <<JsString("customer experience", 19)>>,
         sentiment_score |-> IF rating /= NoRating THEN (rating - 3) * 50 ELSE 0,
         key_phrases |-> <<JsString("first words", firstWordsLengthFrom(reviewText, 1, 0))>>,
         summary |-> JsString("fallback summary", FallbackSummaryFixedLength + categoryLength(category))]

RegexDefaultConfidence == 50

SummaryPrefixLength == 100

\* the object attemptFallbackParsing builds from what its three regular
\* expressions capture in the text that JSON.parse rejected
attemptFallbackParsing(content, reviewText, rating) ==
    [t |-> "record",
     primary_category |->
        IF content.categoryMatch /= "none" THEN JsString(content.categoryMatch, categoryLength(content.categoryMatch))
        ELSE JsString("neutral", 7),
     primary_confidence |->
        IF content.confidenceMatch.matched THEN content.confidenceMatch.number
        ELSE JsNumber(RegexDefaultConfidence),
     secondary_categories |-> JsArray(<<JsString("general", 7)>>),
     themes |-> JsArray(<<JsString("review analysis", 15)>>),
     sentiment_score |->
        IF content.sentimentMatch.matched THEN content.sentimentMatch.number
        ELSE JsNumber(0),
     key_phrases |-> JsArray(<<JsString("analysis", 8)>>),
     summary |-> JsString("text prefix", minOf(Len(reviewText), SummaryPrefixLength) + 3)]

\* array.filter(item => typeof item === 'string')
RECURSIVE stringItemsFrom(_, _)
stringItemsFrom(items, k) ==
    IF k > Len(items) THEN <<>>
    ELSE IF items[k].t = "string" THEN <<items[k]>> \o stringItemsFrom(items, k + 1)
         ELSE stringItemsFrom(items, k + 1)

MaxArrayItems == 5

\* Array.isArray(x) ? x.filter(string).slice(0, 5) : dflt
sanitizeArray(x, dflt) ==
    IF x.t = "array"
    THEN SubSeq(stringItemsFrom(x.items, 1), 1,
                minOf(MaxArrayItems, Len(stringItemsFrom(x.items, 1))))
    ELSE dflt

DefaultConfidence == 50

MaxSummaryLength == 200

\* "Review about " + " with " + " sentiment"
DefaultSummaryFixedLength == 29

\* a clamp that forgets the upper end
clampLowerOnly(lo, hi, x) == maxOf(lo, x)

\* Math.max(lo, Math.min(hi, x))
clamp(lo, hi, x) == maxOf(lo, minOf(hi, x))

\* the try block of validateAndSanitizeResult; `threw` when it throws
validateBody(result, reviewText, rating) ==
    IF result.t \in {"null", "undefined"} THEN [threw |-> TRUE]
    ELSE IF toStringThrows(getField(result, "primary_confidence"))
            \/ toStringThrows(getField(result, "sentiment_score"))
         THEN [threw |-> TRUE]
    ELSE
    LET category == getField(result, "primary_category")
        primary_category ==
            IF category.t = "string" /\ category.s \in validCategories
            THEN category.s
            ELSE inferCategoryFromRating(rating)
        primary_confidence ==
            clamp(0, 100, parseFloatOr(getField(result, "primary_confidence"), DefaultConfidence))
        sentiment_score ==
            clamp(-100, 100, parseFloatOr(getField(result, "sentiment_score"), 0))
        secondary_categories ==
            sanitizeArray(getField(result, "secondary_categories"), <<JsString("general", 7)>>)
        themes ==
            sanitizeArray(getField(result, "themes"), <<JsString("general feedback", 16)>>)
        key_phrases ==
            sanitizeArray(getField(result, "key_phrases"), <<JsString("review", 6)>>)
        modelSummary == getField(result, "summary")
        topic == IF themes /= <<>> /\ themes[1].len > 0 THEN themes[1].len ELSE 7
        summary ==
            IF modelSummary.t = "string" /\ modelSummary.len > 0
            THEN [modelSummary EXCEPT !.len = minOf(modelSummary.len, MaxSummaryLength)]
            ELSE JsString("default summary",
                          DefaultSummaryFixedLength + topic + categoryLength(primary_category))
    IN  [threw |-> FALSE,
         value |-> [primary_category |-> primary_category,
                    primary_confidence |-> primary_confidence,
                    secondary_categories |-> secondary_categories,
                    themes |-> themes,
                    sentiment_score |-> sentiment_score,
                    key_phrases |-> key_phrases,
                    summary |-> summary]]

validateAndSanitizeResult(result, reviewText, rating) ==
    LET body == validateBody(result, reviewText, rating)
    IN  IF body.threw THEN createFallbackAnalysis(reviewText, rating) ELSE body.value

\* the try block of analyzeReview and of analyzeReviewFast, given what the chat
\* completion call does: it throws, it answers without content, or it answers a
\* text that (after cleanJsonResponse) JSON.parse accepts or rejects
analyzeBody(reviewText, rating, response) ==
    CASE response.kind = "throw" -> [threw |-> TRUE]
      [] response.kind = "empty" -> [threw |-> TRUE]
      [] response.kind = "json" ->
            [threw |-> FALSE,
             value |-> validateAndSanitizeResult(response.value, reviewText, rating)]
      [] response.kind = "malformed" ->
            [threw |-> FALSE,
             value |-> validateAndSanitizeResult(
                          attemptFallbackParsing(response, reviewText, rating),
                          reviewText, rating)]

analyzeReview(reviewText, rating, response) ==
    LET body == analyzeBody(reviewText, rating, response)
    IN  IF body.threw
        THEN [threw |-> FALSE, value |-> createFallbackAnalysis(reviewText, rating)]
        ELSE body

analyzeReviewFast(reviewText, rating, response) ==
    LET body == analyzeBody(reviewText, rating, response)
    IN  IF body.threw
        THEN [threw |-> FALSE, value |-> createFallbackAnalysis(reviewText, rating)]
        ELSE body

-----------------------------------------------------------------------------
(* One call of analyzeReview or analyzeReviewFast *)

MaxArrayLen == 6

LongStringLength == 300

Ratings == {NoRating} \cup (1..5)

StringItems(n) == [k \in 1..n |-> JsString("item", 4)]

MixedItems(n) == [k \in 1..n |-> IF k % 2 = 1 THEN JsNumber(k) ELSE JsString("item", 4)]

CategoryValues ==
    {JsString("positive", 8), JsString("negative", 8), JsString("neutral", 7),
     JsString("Positive", 8), JsUndefined, JsNumber(100)}

NumberValues ==
    {JsUndefined, JsNull, JsNumber(-250), JsNumber(-100), JsNumber(-30), JsNumber(0),
     JsNumber(85), JsNumber(100), JsNumber(250), JsNumericString(80), JsString("high", 4),
     JsArray(<<>>), JsArray(<<JsNumber(90)>>), JsArray(<<JsNumber(90), JsObject(TRUE)>>),
     JsObject(FALSE), JsObject(TRUE)}

ArrayValues ==
    {JsUndefined, JsNull, JsString("general", 7)}
    \cup {JsArray(StringItems(n)) : n \in 0..MaxArrayLen}
    \cup {JsArray(MixedItems(MaxArrayLen)),
          JsArray(<<JsString("", 0)>>),
          JsArray(<<JsString("long", LongStringLength)>>)}

SummaryValues ==
    {JsUndefined, JsNumber(100), JsString("", 0), JsString("summary", 40),
     JsString("summary", MaxSummaryLength), JsString("summary", LongStringLength)}

BaseObject ==
    [t |-> "record",
     primary_category |-> JsString("positive", 8),
     primary_confidence |-> JsNumber(95),
     secondary_categories |-> JsArray(StringItems(2)),
     themes |-> JsArray(StringItems(2)),
     sentiment_score |-> JsNumber(80),
     key_phrases |-> JsArray(StringItems(2)),
     summary |-> JsString("summary", 40)]

JsonObjects ==
    {[BaseObject EXCEPT !.primary_category = c, !.themes = a, !.summary = s] :
        c \in CategoryValues, a \in ArrayValues, s \in SummaryValues}
    \cup {[BaseObject EXCEPT !.primary_confidence = n, !.sentiment_score = m] :
        n \in NumberValues, m \in NumberValues}
    \cup {[BaseObject EXCEPT !.secondary_categories = a, !.key_phrases = b] :
        a \in ArrayValues, b \in ArrayValues}

\* valid JSON that is not an object
JsonNonObjects == {JsNull, JsArray(<<>>), JsNumber(100), JsString("ok", 2)}

\* what /"primary_confidence":\s*([\d.]+)/ can capture, parsed
ConfidenceMatches ==
    {[matched |-> FALSE, number |-> JsNaN]}
    \cup {[matched |-> TRUE, number |-> n] : n \in {JsNumber(90), JsNumber(9500), JsNumber(0), JsNaN}}

\* what /"sentiment_score":\s*([-\d.]+)/ can capture, parsed
SentimentMatches ==
    {[matched |-> FALSE, number |-> JsNaN]}
    \cup {[matched |-> TRUE, number |-> n] :
            n \in {JsNumber(-50), JsNumber(-500), JsNumber(80), JsNumber(500), JsNaN}}

MalformedResponses ==
    {[kind |-> "malformed", categoryMatch |-> c, confidenceMatch |-> n, sentimentMatch |-> m] :
        c \in validCategories \cup {"none"}, n \in ConfidenceMatches, m \in SentimentMatches}

Responses ==
    {[kind |-> "throw"], [kind |-> "empty"]}
    \cup {[kind |-> "json", value |-> v] : v \in JsonObjects \cup JsonNonObjects}
    \cup MalformedResponses

AnalyzeTexts ==
    {<<>>,
     <<"G","r","e","a","t"," ","f","o","o","d"," ","a","n","d"," ","s","t","a","f","f">>,
     Rep("a", SummaryPrefixLength + 1)}

NoResult == [threw |-> FALSE, value |-> "none"]

AnalyzeIdle ==
    /\ aText = <<>> /\ aRating = NoRating /\ aResponse = [kind |-> "none"]
    /\ aResult = NoResult /\ apc = "idle"

AnalyzeInit ==
    /\ aText \in AnalyzeTexts
    /\ aRating \in Ratings
    /\ aResponse \in Responses
    /\ aResult = NoResult
    /\ apc = "input"

\* await analyzeReview(aText, aRating)
CallAnalyzeReview ==
    /\ apc = "input"
    /\ aResult' = analyzeReview(aText, aRating, aResponse)
    /\ apc' = "standard"
    /\ UNCHANGED <<aText, aRating, aResponse>>
    /\ UNCHANGED <<simVars, filterVars, hybridVars, batchVars, projectVars, serviceVars>>

\* await analyzeReviewFast(aText, aRating)
CallAnalyzeReviewFast ==
    /\ apc = "input"
    /\ aResult' = analyzeReviewFast(aText, aRating, aResponse)
    /\ apc' = "fast"
    /\ UNCHANGED <<aText, aRating, aResponse>>
    /\ UNCHANGED <<simVars, filterVars, hybridVars, batchVars, projectVars, serviceVars>>

-----------------------------------------------------------------------------
(* services/openaiService.ts: batchAnalyzeReviewsFast and                     *)
(* batchAnalyzeReviewsUltraFast.  Positions are 1-based: the loop index bi is *)
(* the number of reviews before the current window.                           *)

\* a window that takes every remaining review
windowRest(reviews, i, concurrency) == (i + 1)..Len(reviews)

\* the positions of reviews.slice(i, i + concurrency)
windowOf(reviews, i, concurrency) == (i + 1)..minOf(i + concurrency, Len(reviews))

\* a loop that advances by one review
nextIndexByOne(i, concurrency) == i + 1

\* i += concurrency
nextIndex(i, concurrency) == i + concurrency

\* the value one promise of batchPromises resolves to
settleRequest(review, mode, response) ==
    LET outcome == IF mode = "fast"
                   THEN analyzeReview(review.text, review.rating, response)
                   ELSE analyzeReviewFast(review.text, review.rating, response)
    IN  [id |-> review.id,
         analysis |-> IF outcome.threw
                      THEN createFallbackAnalysis(review.text, review.rating)
                      ELSE outcome.value]

EmptyMap == [p \in {} |-> 0]

MapPut(f, p, v) == [q \in (DOMAIN f) \cup {p} |-> IF q = p THEN v ELSE f[q]]

BatchIdle ==
    /\ bReviews = <<>> /\ bConcurrency = 1 /\ bMode = "none" /\ bi = 0
    /\ bPending = {} /\ bSettled = EmptyMap /\ bOutcome = EmptyMap
    /\ bResults = <<>> /\ bpc = "idle"

\* const results = []; let i = 0
BatchInit(reviewLists, concurrencies) ==
    /\ bReviews \in reviewLists
    /\ bConcurrency \in concurrencies
    /\ bMode \in {"fast", "ultra"}
    /\ bi = 0
    /\ bPending = {} /\ bSettled = EmptyMap /\ bOutcome = EmptyMap
    /\ bResults = <<>>
    /\ bpc = "loop"

\* i < reviews.length: batch.map(...) starts one request per review of the window
StartWindow ==
    /\ bpc = "loop"
    /\ bi < Len(bReviews)
    /\ bPending' = windowOf(bReviews, bi, bConcurrency)
    /\ bSettled' = EmptyMap
    /\ bpc' = "await"
    /\ UNCHANGED <<bReviews, bConcurrency, bMode, bi, bOutcome, bResults>>
    /\ UNCHANGED <<simVars, filterVars, hybridVars, analyzeVars, projectVars, serviceVars>>

\* the chat completion call of one review in flight ends with `response`, and
\* that review's promise settles
RequestSettles(p, response) ==
    /\ bpc = "await"
    /\ p \in bPending
    /\ bPending' = bPending \ {p}
    /\ bSettled' = MapPut(bSettled, p, settleRequest(bReviews[p], bMode, response))
    /\ bOutcome' = MapPut(bOutcome, p, response.kind)
    /\ UNCHANGED <<bReviews, bConcurrency, bMode, bi, bResults, bpc>>
    /\ UNCHANGED <<simVars, filterVars, hybridVars, analyzeVars, projectVars, serviceVars>>

\* await Promise.all(batchPromises); results.push(...batchResults)
WindowDone ==
    /\ bpc = "await"
    /\ bPending = {}
    /\ LET n == Cardinality(DOMAIN bSettled)
       IN  bResults' = bResults \o [k \in 1..n |-> bSettled[bi + k]]
    /\ IF bi + bConcurrency < Len(bReviews)
       THEN bpc' = "delay" /\ UNCHANGED bi
       ELSE bpc' = "loop" /\ bi' = nextIndex(bi, bConcurrency)
    /\ UNCHANGED <<bReviews, bConcurrency, bMode, bPending, bSettled, bOutcome>>
    /\ UNCHANGED <<simVars, filterVars, hybridVars, analyzeVars, projectVars, serviceVars>>

\* the delay between two windows elapses
DelayElapses ==
    /\ bpc = "delay"
    /\ bi' = nextIndex(bi, bConcurrency)
    /\ bpc' = "loop"
    /\ UNCHANGED <<bReviews, bConcurrency, bMode, bPending, bSettled, bOutcome, bResults>>
    /\ UNCHANGED <<simVars, filterVars, hybridVars, analyzeVars, projectVars, serviceVars>>

\* the loop condition fails: return results
BatchReturn ==
    /\ bpc = "loop"
    /\ bi >= Len(bReviews)
    /\ bpc' = "done"
    /\ UNCHANGED <<bReviews, bConcurrency, bMode, bi, bPending, bSettled, bOutcome, bResults>>
    /\ UNCHANGED <<simVars, filterVars, hybridVars, analyzeVars, projectVars, serviceVars>>

MaxBatchReviews == 3

MaxConcurrency == 3

\* the (text, rating) pairs of the reviews handed to the batch
BatchReviewPool ==
    {[text |-> <<>>, rating |-> NoRating],
     [text |-> <<"G","r","e","a","t"," ","f","o","o","d">>, rating |-> 5],
     [text |-> <<"S","l","o","w"," ","a","n","d"," ","r","u","d","e">>, rating |-> 1]}

RECURSIVE BatchListsOfLen(_)
BatchListsOfLen(n) ==
    IF n = 0 THEN {<<>>}
    ELSE {Append(l, [id |-> n, text |-> r.text, rating |-> r.rating]) :
            l \in BatchListsOfLen(n - 1), r \in BatchReviewPool}

BatchLists == UNION {BatchListsOfLen(n) : n \in 0..MaxBatchReviews}

\* the outcomes of a chat completion call inside a batch
BatchResponses ==
    {[kind |-> "throw"], [kind |-> "empty"],
     [kind |-> "json", value |-> BaseObject],
     [kind |-> "malformed", categoryMatch |-> "none",
      confidenceMatch |-> [matched |-> FALSE, number |-> JsNaN],
      sentimentMatch |-> [matched |-> FALSE, number |-> JsNaN]]}

-----------------------------------------------------------------------------
(* One project: routes/projects.ts (creation with the Outscraper ingest, the  *)
(* detail fetch), routes/reviews.ts (the single-review test route) and        *)
(* routes/analysis.ts (the standard and the ultra-fast analysis run).  The    *)
(* handlers run one after another; each awaited database write is a step.     *)

\* what batchAnalyzeReviewsFast / batchAnalyzeReviewsUltraFast return when the
\* request of the k-th review ends with responses[k]
batchAnalyze(reviews, mode, responses) ==
    [k \in 1..Len(reviews) |-> settleRequest(reviews[k], mode, responses[k])]

\* a selection that takes every review for one without an analysis
hasAnalysisNever(analyses, reviewId) == FALSE

hasAnalysis(analyses, reviewId) == \E k \in 1..Len(analyses) : analyses[k].review_id = reviewId

\* a selection that keeps the reviews that have an analysis as well
allReviewsFrom(rows, analyses, k) == SubSeq(rows, k, Len(rows))

\* reviews.filter(review => !review.review_analyses || review.review_analyses.length === 0)
RECURSIVE unanalyzedFrom(_, _, _)
unanalyzedFrom(rows, analyses, k) ==
    IF k > Len(rows) THEN <<>>
    ELSE IF hasAnalysis(analyses, rows[k].id)
         THEN unanalyzedFrom(rows, analyses, k + 1)
         ELSE <<rows[k]>> \o unanalyzedFrom(rows, analyses, k + 1)

\* filteredReviews.map(review => ({ id, text: review.original_text, rating }))
reviewsForAnalysis(rows) ==
    [k \in 1..Len(rows) |->
        [id |-> rows[k].id, text |-> rows[k].original_text, rating |-> rows[k].rating]]

\* the rows the reviews table gives to a list of (text, rating) pairs
insertedRows(table, items, source) ==
    [k \in 1..Len(items) |->
        [id |-> Len(table) + k, original_text |-> items[k].text,
         rating |-> items[k].rating, source |-> source]]

ProgressEvery == 10

NoResponse == [code |-> 0]

NoScrape == [success |-> FALSE, count |-> 0]

ProjectIdle ==
    /\ projectStatus = "absent" /\ total_reviews = 0 /\ analyzed_reviews = 0
    /\ reviewsTable = <<>> /\ analysesTable = <<>>
    /\ ppc = "off" /\ scrapeOutcome = NoScrape /\ runMode = "none"
    /\ unanalyzedCount = 0 /\ filteredReviews = <<>> /\ skippedCount = 0
    /\ analysisResults = <<>> /\ saveIndex = 0 /\ analyzedCount = 0
    /\ httpResponse = NoResponse
    /\ llmCalls = 0 /\ totalSetByIngest = FALSE /\ finalUpdate = "none"

\* no project row yet, empty tables, no handler running
ProjectInit ==
    /\ projectStatus = "absent" /\ total_reviews = 0 /\ analyzed_reviews = 0
    /\ reviewsTable = <<>> /\ analysesTable = <<>>
    /\ ppc = "idle" /\ scrapeOutcome = NoScrape /\ runMode = "none"
    /\ unanalyzedCount = 0 /\ filteredReviews = <<>> /\ skippedCount = 0
    /\ analysisResults = <<>> /\ saveIndex = 0 /\ analyzedCount = 0
    /\ httpResponse = NoResponse
    /\ llmCalls = 0 /\ totalSetByIngest = FALSE /\ finalUpdate = "none"

runLocals == <<runMode, unanalyzedCount, filteredReviews, skippedCount, analysisResults,
               saveIndex, analyzedCount>>

observed == <<llmCalls, totalSetByIngest, finalUpdate>>

\* how an awaited update of the project row can end: it is applied; the client
\* returns { error } (which neither route reads) and the row is unchanged; or
\* the call throws into the handler's catch block
UpdateOutcomes == {"ok", "error", "throws"}

\* POST /api/projects: insert the project row as pending
CreateProject(googleUrl, insertFails) ==
    /\ ppc = "idle"
    /\ projectStatus = "absent"
    /\ IF insertFails
       THEN /\ httpResponse' = [code |-> 500]
            /\ UNCHANGED <<projectStatus, ppc>>
       ELSE /\ projectStatus' = "pending"
            /\ IF googleUrl
               THEN ppc' = "create_mark" /\ UNCHANGED httpResponse
               ELSE ppc' = "idle" /\ httpResponse' = [code |-> 200, success |-> TRUE]
    /\ UNCHANGED <<total_reviews, analyzed_reviews, reviewsTable, analysesTable, scrapeOutcome>>
    /\ UNCHANGED <<runLocals, observed>>
    /\ UNCHANGED <<simVars, filterVars, hybridVars, analyzeVars, batchVars, serviceVars>>

\* googleUrl given: update status to processing
CreateMarkProcessing ==
    /\ ppc = "create_mark"
    /\ projectStatus' = "processing"
    /\ ppc' = "create_scrape"
    /\ UNCHANGED <<total_reviews, analyzed_reviews, reviewsTable, analysesTable, scrapeOutcome,
                   httpResponse>>
    /\ UNCHANGED <<runLocals, observed>>
    /\ UNCHANGED <<simVars, filterVars, hybridVars, analyzeVars, batchVars, serviceVars>>

\* scrapeWithOutscraper returns: it failed and saved nothing, or it saved the
\* reviews with text that it fetched
CreateScrape(succeeds, items) ==
    /\ ppc = "create_scrape"
    /\ IF succeeds
       THEN /\ Len(items) > 0
            /\ reviewsTable' = reviewsTable \o insertedRows(reviewsTable, items, "outscraper_api")
            /\ scrapeOutcome' = [success |-> TRUE, count |-> Len(items)]
       ELSE /\ items = <<>>
            /\ scrapeOutcome' = [success |-> FALSE, count |-> 0]
            /\ UNCHANGED reviewsTable
    /\ ppc' = "create_final"
    /\ UNCHANGED <<projectStatus, total_reviews, analyzed_reviews, analysesTable, httpResponse>>
    /\ UNCHANGED <<runLocals, observed>>
    /\ UNCHANGED <<simVars, filterVars, hybridVars, analyzeVars, batchVars, serviceVars>>

\* a final status that goes back to pending when the ingest failed
finalStatusOrPending(success) == IF success THEN "completed" ELSE "pending"

\* const finalStatus = scrapingResult.success ? 'completed' : 'error'
finalStatus(success) == IF success THEN "completed" ELSE "error"

\* update status to finalStatus, with the counts
CreateFinal(outcome) ==
    /\ ppc = "create_final"
    /\ IF outcome = "ok"
       THEN /\ projectStatus' = finalStatus(scrapeOutcome.success)
            /\ total_reviews' = scrapeOutcome.count
            /\ analyzed_reviews' = 0
            /\ totalSetByIngest' = TRUE
       ELSE UNCHANGED <<projectStatus, total_reviews, analyzed_reviews, totalSetByIngest>>
    /\ httpResponse' = IF outcome = "throws" THEN [code |-> 500]
                                             ELSE [code |-> 200, success |-> TRUE]
    /\ ppc' = "idle"
    /\ UNCHANGED <<reviewsTable, analysesTable, scrapeOutcome, llmCalls, finalUpdate>>
    /\ UNCHANGED runLocals
    /\ UNCHANGED <<simVars, filterVars, hybridVars, analyzeVars, batchVars, serviceVars>>

\* POST /api/reviews/test: insert one review of the project, analyze it, insert
\* its analysis (which the database may refuse)
AddTestReview(item, response, analysisFails) ==
    /\ ppc = "idle"
    /\ projectStatus /= "absent"
    /\ LET row == insertedRows(reviewsTable, <<item>>, "csv")[1]
           analysis == analyzeReview(item.text, item.rating, response).value
       IN  /\ reviewsTable' = Append(reviewsTable, row)
           /\ IF analysisFails
              THEN /\ httpResponse' = [code |-> 500]
                   /\ UNCHANGED analysesTable
              ELSE /\ analysesTable' =
                        Append(analysesTable, [review_id |-> row.id, analysis |-> analysis])
                   /\ httpResponse' = [code |-> 200, success |-> TRUE]
    /\ UNCHANGED <<projectStatus, total_reviews, analyzed_reviews, ppc, scrapeOutcome>>
    /\ UNCHANGED <<runLocals, observed>>
    /\ UNCHANGED <<simVars, filterVars, hybridVars, analyzeVars, batchVars, serviceVars>>

\* a count that misses one row
countMissingOne(table) == IF table = <<>> THEN 0 ELSE Len(table) - 1

\* select('*', { count: 'exact', head: true }).eq('project_id', projectId)
exactCount(table) == Len(table)

\* GET /api/projects/:projectId: rewrite the two counters from the tables; a
\* count query that fails yields null, which `|| 0` turns into 0
GetProject(totalCountFails, analyzedCountFails) ==
    /\ ppc = "idle"
    /\ projectStatus /= "absent"
    /\ total_reviews' = IF totalCountFails THEN 0 ELSE exactCount(reviewsTable)
    /\ analyzed_reviews' = IF analyzedCountFails THEN 0 ELSE exactCount(analysesTable)
    /\ httpResponse' = [code |-> 200, success |-> TRUE]
    /\ UNCHANGED <<projectStatus, reviewsTable, analysesTable, ppc, scrapeOutcome>>
    /\ UNCHANGED <<runLocals, observed>>
    /\ UNCHANGED <<simVars, filterVars, hybridVars, analyzeVars, batchVars, serviceVars>>

\* POST /api/analysis/project/:projectId (mode "fast") and .../ultra-fast (mode
\* "ultra"): select the reviews, keep the unanalyzed ones that pass the filter
StartAnalysis(mode, selectFails) ==
    /\ ppc = "idle"
    /\ projectStatus /= "absent"
    /\ LET unanalyzedReviews == unanalyzedFrom(reviewsTable, analysesTable, 1)
           filtered == filterReviewsForAnalysis(unanalyzedReviews)
           skipped == Len(unanalyzedReviews) - Len(filtered)
       IN  IF selectFails
           THEN /\ httpResponse' = [code |-> 500]
                /\ UNCHANGED <<ppc, runLocals>>
           ELSE IF Len(reviewsTable) = 0
           THEN /\ httpResponse' = [code |-> 200, success |-> TRUE, reviewCount |-> 0,
                                    message |-> "No reviews found"]
                /\ UNCHANGED <<ppc, runLocals>>
           ELSE IF Len(filtered) = 0
           THEN /\ httpResponse' = [code |-> 200, success |-> TRUE, reviewCount |-> 0,
                                    skipped |-> skipped,
                                    message |-> "already analyzed or filtered out"]
                /\ UNCHANGED <<ppc, runLocals>>
           ELSE /\ runMode' = mode
                /\ unanalyzedCount' = Len(unanalyzedReviews)
                /\ filteredReviews' = filtered
                /\ skippedCount' = skipped
                /\ ppc' = "analysis_mark"
                /\ UNCHANGED <<analysisResults, saveIndex, analyzedCount, httpResponse>>
    /\ llmCalls' = 0
    /\ finalUpdate' = "none"
    /\ UNCHANGED <<projectStatus, total_reviews, analyzed_reviews, reviewsTable, analysesTable,
                   scrapeOutcome, totalSetByIngest>>
    /\ UNCHANGED <<simVars, filterVars, hybridVars, analyzeVars, batchVars, serviceVars>>

\* update status to processing; let analyzedCount = 0
AnalysisMarkProcessing ==
    /\ ppc = "analysis_mark"
    /\ projectStatus' = "processing"
    /\ analyzedCount' = 0
    /\ ppc' = "analysis_batch"
    /\ UNCHANGED <<total_reviews, analyzed_reviews, reviewsTable, analysesTable, scrapeOutcome,
                   runMode, unanalyzedCount, filteredReviews, skippedCount, analysisResults,
                   saveIndex, httpResponse, observed>>
    /\ UNCHANGED <<simVars, filterVars, hybridVars, analyzeVars, batchVars, serviceVars>>

\* await batchAnalyzeReviewsFast(reviewsForAnalysis, 10), or ...UltraFast
AnalysisBatch(responses) ==
    /\ ppc = "analysis_batch"
    /\ DOMAIN responses = 1..Len(filteredReviews)
    /\ analysisResults' = batchAnalyze(reviewsForAnalysis(filteredReviews), runMode, responses)
    /\ saveIndex' = 1
    /\ llmCalls' = Len(filteredReviews)
    /\ ppc' = "analysis_save"
    /\ UNCHANGED <<projectStatus, total_reviews, analyzed_reviews, reviewsTable, analysesTable,
                   scrapeOutcome, runMode, unanalyzedCount, filteredReviews, skippedCount,
                   analyzedCount, httpResponse, totalSetByIngest, finalUpdate>>
    /\ UNCHANGED <<simVars, filterVars, hybridVars, analyzeVars, batchVars, serviceVars>>

\* a count of the inserts attempted, refused ones included
countAfterAttempt(count, insertFails) == count + 1

\* if (!error) { analyzedCount++; ... }
countAfterInsert(count, insertFails) == IF insertFails THEN count ELSE count + 1

\* one turn of the save loop: insert the analysis; when the insert succeeds
\* count it, and write the progress at every tenth
AnalysisSave(insertFails) ==
    /\ ppc = "analysis_save"
    /\ saveIndex <= Len(analysisResults)
    /\ LET result == analysisResults[saveIndex]
       IN  IF insertFails
           THEN UNCHANGED <<analysesTable, analyzed_reviews>>
           ELSE /\ analysesTable' =
                     Append(analysesTable, [review_id |-> result.id, analysis |-> result.analysis])
                /\ IF (analyzedCount + 1) % ProgressEvery = 0
                   THEN analyzed_reviews' = analyzedCount + 1
                   ELSE UNCHANGED analyzed_reviews
    /\ analyzedCount' = countAfterInsert(analyzedCount, insertFails)
    /\ saveIndex' = saveIndex + 1
    /\ UNCHANGED <<projectStatus, total_reviews, reviewsTable, scrapeOutcome, ppc,
                   runMode, unanalyzedCount, filteredReviews, skippedCount, analysisResults,
                   httpResponse, observed>>
    /\ UNCHANGED <<simVars, filterVars, hybridVars, analyzeVars, batchVars, serviceVars>>

\* after the loop: update status to completed with the count, and answer; the
\* handler's locals end with it
AnalysisFinal(outcome) ==
    /\ ppc = "analysis_save"
    /\ saveIndex > Len(analysisResults)
    /\ IF outcome = "ok"
       THEN /\ projectStatus' = "completed"
            /\ analyzed_reviews' = analyzedCount
       ELSE UNCHANGED <<projectStatus, analyzed_reviews>>
    /\ finalUpdate' = outcome
    /\ httpResponse' =
          IF outcome = "throws"
          THEN [code |-> 500]
          ELSE IF runMode = "fast"
          THEN [code |-> 200, success |-> TRUE, message |-> "Successfully analyzed",
                reviewCount |-> analyzedCount,
                skippedCount |-> skippedCount, totalReviews |-> unanalyzedCount]
          ELSE [code |-> 200, success |-> TRUE, message |-> "Successfully analyzed",
                reviewCount |-> analyzedCount]
    /\ ppc' = "idle"
    /\ UNCHANGED <<total_reviews, reviewsTable, analysesTable, scrapeOutcome, llmCalls,
                   totalSetByIngest>>
    /\ runMode' = "none" /\ unanalyzedCount' = 0 /\ filteredReviews' = <<>>
    /\ skippedCount' = 0 /\ analysisResults' = <<>> /\ saveIndex' = 0 /\ analyzedCount' = 0
    /\ UNCHANGED <<simVars, filterVars, hybridVars, analyzeVars, batchVars, serviceVars>>

MaxProjectReviews == 2

MaxScraped == 2

OkText == <<"G","r","e","a","t"," ","f","o","o","d"," ","a","n","d"," ","s","t","a","f","f">>

\* reviews with text, as the Outscraper ingest saves them
ScrapePool ==
    {[text |-> OkText, rating |-> 5],
     [text |-> <<"g","o","o","d">>, rating |-> 4]}

RECURSIVE ItemListsOfLen(_, _)
ItemListsOfLen(pool, n) ==
    IF n = 0 THEN {<<>>}
    ELSE {Append(l, r) : l \in ItemListsOfLen(pool, n - 1), r \in pool}

ScrapeLists == UNION {ItemListsOfLen(ScrapePool, n) : n \in 1..MaxScraped}

\* reviews posted to the test route
TestPool ==
    {[text |-> OkText, rating |-> 1],
     [text |-> <<>>, rating |-> NoRating]}

\* the outcome of a chat completion call inside a run: the JSON object (what the
\* other outcomes turn into is the subject of SpecBatch)
ProjectResponses == {[kind |-> "json", value |-> BaseObject]}

-----------------------------------------------------------------------------
(* services/hybridScraper.ts: scrapeAllReviewsHybrid *)

\* the rows that supabase.from('reviews').insert(rows).select() returns: the texts
\* in order, each with the next id of the table
savedRows(table, texts, source) ==
    [k \in 1..Len(texts) |->
        [id |-> Len(table) + k, original_text |-> texts[k], source |-> source]]

\* a filter callback that looks at the first existing review only
isNewReviewFirstOnly(existing, scrapedReview) ==
    ~(existing /= <<>> /\
      areSimilarReviews(existing[1].original_text, scrapedReview.original_text))

\* a filter callback that keeps every scraped review
isNewReviewAlways(existing, scrapedReview) == TRUE

\* the callback of scrapingResult.reviews.filter:
\* !allReviews.some(existingReview => areSimilarReviews(existing.text, scraped.text))
isNewReview(existing, scrapedReview) ==
    ~\E k \in 1..Len(existing) :
        areSimilarReviews(existing[k].original_text, scrapedReview.original_text)

RECURSIVE newReviewsFrom(_, _, _)
newReviewsFrom(existing, scraped, k) ==
    IF k > Len(scraped) THEN <<>>
    ELSE IF isNewReview(existing, scraped[k])
         THEN <<scraped[k]>> \o newReviewsFrom(existing, scraped, k + 1)
         ELSE newReviewsFrom(existing, scraped, k + 1)

textsOf(rows) == [k \in 1..Len(rows) |-> rows[k].original_text]

HybridIdle ==
    /\ hpc = "idle"
    /\ placesResult = [success |-> FALSE]
    /\ scrapingResult = [success |-> FALSE]
    /\ allReviews = <<>>
    /\ errors = <<>>
    /\ insertError = FALSE
    /\ dbReviews = <<>>
    /\ hybridResult = [returned |-> FALSE]

HybridInit ==
    /\ hpc = "places"
    /\ placesResult = [success |-> FALSE]
    /\ scrapingResult = [success |-> FALSE]
    /\ allReviews = <<>>
    /\ errors = <<>>
    /\ insertError = FALSE
    /\ dbReviews = <<>>
    /\ hybridResult = [returned |-> FALSE]

\* Step 1, the structured API answers with reviews it has saved
PlacesSucceeds(texts) ==
    /\ hpc = "places"
    /\ LET saved == savedRows(dbReviews, texts, "google_api")
       IN  /\ placesResult' = [success |-> TRUE, reviews |-> saved]
           /\ dbReviews' = dbReviews \o saved
           /\ allReviews' = saved
    /\ hpc' = "scraping"
    /\ UNCHANGED <<scrapingResult, errors, insertError, hybridResult>>
    /\ UNCHANGED <<simVars, filterVars, analyzeVars, batchVars, projectVars, serviceVars>>

\* Step 1, the structured API fails (no key, no place id, API error, save failed)
PlacesFails ==
    /\ hpc = "places"
    /\ placesResult' = [success |-> FALSE, error |-> "places failed"]
    /\ errors' = Append(errors, "Places API")
    /\ hpc' = "scraping"
    /\ UNCHANGED <<scrapingResult, allReviews, insertError, dbReviews, hybridResult>>
    /\ UNCHANGED <<simVars, filterVars, analyzeVars, batchVars, projectVars, serviceVars>>

\* Step 2, the browser scraper answers with reviews it has saved
ScrapingSucceeds(texts) ==
    /\ hpc = "scraping"
    /\ LET saved == savedRows(dbReviews, texts, "google_scraping_improved")
       IN  /\ scrapingResult' = [success |-> TRUE, reviews |-> saved]
           /\ dbReviews' = dbReviews \o saved
    /\ hpc' = "merge"
    /\ UNCHANGED <<placesResult, allReviews, errors, insertError, hybridResult>>
    /\ UNCHANGED <<simVars, filterVars, analyzeVars, batchVars, projectVars, serviceVars>>

\* Step 2, the browser scraper fails (nothing found, save failed, navigation error)
ScrapingFails ==
    /\ hpc = "scraping"
    /\ scrapingResult' = [success |-> FALSE, error |-> "scraping failed"]
    /\ errors' = Append(errors, "Web scraping")
    /\ hpc' = "return"
    /\ UNCHANGED <<placesResult, allReviews, insertError, dbReviews, hybridResult>>
    /\ UNCHANGED <<simVars, filterVars, analyzeVars, batchVars, projectVars, serviceVars>>

\* Step 2 throws (browser.close() rejects in the scraper's finally): the catch of
\* scrapeAllReviewsHybrid answers
ScrapingThrows ==
    /\ hpc = "scraping"
    /\ hybridResult' = [returned |-> TRUE, success |-> FALSE, hasReviews |-> FALSE,
                        reviews |-> <<>>, hasError |-> TRUE, hasErrors |-> FALSE]
    /\ hpc' = "done"
    /\ UNCHANGED <<placesResult, scrapingResult, allReviews, errors, insertError, dbReviews>>
    /\ UNCHANGED <<simVars, filterVars, analyzeVars, batchVars, projectVars, serviceVars>>

\* the duplicate filter and the insert of the new reviews; the insert may fail
MergeScraped(insertFails) ==
    /\ hpc = "merge"
    /\ LET newReviews == newReviewsFrom(allReviews, scrapingResult.reviews, 1)
           saved == savedRows(dbReviews, textsOf(newReviews), "web_scraping")
       IN  IF Len(newReviews) > 0
           THEN IF ~insertFails
                THEN /\ dbReviews' = dbReviews \o saved
                     /\ allReviews' = allReviews \o saved
                     /\ UNCHANGED insertError
                ELSE /\ insertError' = TRUE
                     /\ UNCHANGED <<dbReviews, allReviews>>
           ELSE /\ insertFails = FALSE
                /\ UNCHANGED <<dbReviews, allReviews, insertError>>
    /\ hpc' = "return"
    /\ UNCHANGED <<placesResult, scrapingResult, errors, hybridResult>>
    /\ UNCHANGED <<simVars, filterVars, analyzeVars, batchVars, projectVars, serviceVars>>

\* return { success: allReviews.length > 0, reviews: allReviews, ..., errors }
HybridReturn ==
    /\ hpc = "return"
    /\ hybridResult' = [returned |-> TRUE, success |-> Len(allReviews) > 0,
                        hasReviews |-> TRUE, reviews |-> allReviews,
                        hasError |-> FALSE, hasErrors |-> Len(errors) > 0]
    /\ hpc' = "done"
    /\ UNCHANGED <<placesResult, scrapingResult, allReviews, errors, insertError, dbReviews>>
    /\ UNCHANGED <<simVars, filterVars, analyzeVars, batchVars, projectVars, serviceVars>>

-----------------------------------------------------------------------------
(* Bounds and input sets of the hybrid ingest *)

MaxProviderReviews == 2

\* "a b c d", a permutation of it, an extension of it, an unrelated text, and a
\* text that repeats a word
HybridTexts == {
    <<"a"," ","b"," ","c"," ","d">>,
    <<"a"," ","b"," ","c"," ","d"," ","e">>,
    <<"x"," ","y"," ","z"," ","w">>,
    <<"a"," ","a"," ","a"," ","x">> }

RECURSIVE TextListsOfLen(_, _)
TextListsOfLen(pool, n) ==
    IF n = 0 THEN {<<>>}
    ELSE {Append(l, t) : l \in TextListsOfLen(pool, n - 1), t \in pool}

\* the structured API may return no review, and a review with an empty text
PlacesLists == UNION {TextListsOfLen(HybridTexts \cup {<<>>}, n) : n \in 0..MaxProviderReviews}

\* the scraper reports success only with at least one review, each longer than 5
ScrapedLists == UNION {TextListsOfLen(HybridTexts, n) : n \in 1..MaxProviderReviews}

-----------------------------------------------------------------------------
(* Bounds and input sets of the similarity check *)

MaxTextLen == 3

SimAlphabet == {"a", "b", "A", " "}

RECURSIVE TextsOfLen(_)
TextsOfLen(n) ==
    IF n = 0 THEN {<<>>}
    ELSE {Append(t, c) : t \in TextsOfLen(n - 1), c \in SimAlphabet}

SimTexts == UNION {TextsOfLen(n) : n \in 0..MaxTextLen}

SimIdle == text1 = <<>> /\ text2 = <<>> /\ simResult = "idle"

SimInit == text1 \in SimTexts /\ text2 \in SimTexts /\ simResult = "none"

\* one call areSimilarReviews(text1, text2)
CompareTexts ==
    /\ simResult = "none"
    /\ simResult' = IF areSimilarReviews(text1, text2) THEN "similar" ELSE "different"
    /\ UNCHANGED <<text1, text2>>
    /\ UNCHANGED <<filterVars, hybridVars, analyzeVars, batchVars, projectVars, serviceVars>>

-----------------------------------------------------------------------------
(* pollForResults of the Outscraper service: up to maxAttempts GET requests on *)
(* the results location, with a growing pause after an answer that is neither  *)
(* Success nor Failed.                                                         *)

maxAttempts == 12

\* Math.min(5000 * attempt, 30000), in seconds
waitTime(attempt) == minOf(5 * attempt, 30)

\* what a poll request can end with: axios rejects (network error, timeout, a
\* status outside 2xx), or a 2xx response whose body has a status, or no body
PollAnswers ==
    {[kind |-> "throws"],
     [kind |-> "response", status |-> 200, data |-> "Success"],
     [kind |-> "response", status |-> 202, data |-> "Success"],
     [kind |-> "response", status |-> 200, data |-> "Failed"],
     [kind |-> "response", status |-> 200, data |-> "Pending"],
     [kind |-> "response", status |-> 200, data |-> "undefined"]}

NoPollAnswer == [kind |-> "none"]

NoPollResult == [returned |-> FALSE]

\* a test of the body that never takes an answer for Failed
isFailedNever(answer) == FALSE

\* response.data.status === 'Failed'
isFailed(answer) == answer.data = "Failed"

\* response.status === 200 && response.data.status === 'Success'
isSuccess(answer) == answer.status = 200 /\ answer.data = "Success"

\* reading response.data.status of a response without a body throws inside the try
pollThrows(answer) == answer.kind = "throws" \/ answer.data = "undefined"

PollIdle ==
    /\ pollAttempt = 0 /\ pollRequests = 0 /\ pollWaited = 0
    /\ pollAnswer = NoPollAnswer /\ pollResult = NoPollResult /\ pollpc = "off"

\* for (let attempt = 1; ...
PollInit ==
    /\ pollAttempt = 1 /\ pollRequests = 0 /\ pollWaited = 0
    /\ pollAnswer = NoPollAnswer /\ pollResult = NoPollResult /\ pollpc = "request"

\* one turn of the loop up to the pause: the request and what its answer leads to
PollRequest(answer) ==
    /\ pollpc = "request"
    /\ pollAttempt <= maxAttempts
    /\ pollRequests' = pollRequests + 1
    /\ pollAnswer' = answer
    /\ IF pollThrows(answer)
       THEN IF pollAttempt = maxAttempts
            THEN /\ pollResult' = [returned |-> TRUE, success |-> FALSE,
                                   error |-> "Polling timeout - results not ready"]
                 /\ pollpc' = "done"
                 /\ UNCHANGED pollAttempt
            ELSE /\ pollAttempt' = pollAttempt + 1
                 /\ UNCHANGED <<pollResult, pollpc>>
       ELSE IF isSuccess(answer)
       THEN /\ pollResult' = [returned |-> TRUE, success |-> TRUE]
            /\ pollpc' = "done"
            /\ UNCHANGED pollAttempt
       ELSE IF isFailed(answer)
       THEN /\ pollResult' = [returned |-> TRUE, success |-> FALSE,
                              error |-> "Outscraper processing failed"]
            /\ pollpc' = "done"
            /\ UNCHANGED pollAttempt
       ELSE /\ pollpc' = "wait"
            /\ UNCHANGED <<pollAttempt, pollResult>>
    /\ UNCHANGED pollWaited
    /\ UNCHANGED <<simVars, filterVars, hybridVars, analyzeVars, batchVars, projectVars,
                   providerVars, scrollVars, raceVars>>

\* the pause ends: attempt++
PollWaitElapses ==
    /\ pollpc = "wait"
    /\ pollWaited' = pollWaited + waitTime(pollAttempt)
    /\ pollAttempt' = pollAttempt + 1
    /\ pollpc' = "request"
    /\ UNCHANGED <<pollRequests, pollAnswer, pollResult>>
    /\ UNCHANGED <<simVars, filterVars, hybridVars, analyzeVars, batchVars, projectVars,
                   providerVars, scrollVars, raceVars>>

\* the loop condition fails: the return after the loop
PollExhausted ==
    /\ pollpc = "request"
    /\ pollAttempt > maxAttempts
    /\ pollResult' = [returned |-> TRUE, success |-> FALSE,
                      error |-> "Polling timeout - max attempts reached"]
    /\ pollpc' = "done"
    /\ UNCHANGED <<pollAttempt, pollRequests, pollWaited, pollAnswer>>
    /\ UNCHANGED <<simVars, filterVars, hybridVars, analyzeVars, batchVars, projectVars,
                   providerVars, scrollVars, raceVars>>

-----------------------------------------------------------------------------
(* The three source providers, from the records they fetched to the rows they *)
(* persist and return: scrapeWithGooglePlaces (the Places API),               *)
(* processScrapingResults (the Outscraper service) and scrapeGoogleReviews     *)
(* (the browser).  A fetched record carries a text that may be missing.        *)

NoText == [present |-> FALSE, chars |-> <<>>]

TextOf(chars) == [present |-> TRUE, chars |-> chars]

\* review.review_text || ''
orEmpty(raw) == IF raw.present THEN raw.chars ELSE <<>>

\* the rows scrapeWithGooglePlaces inserts: original_text: review.text
placesRows(records) == [k \in 1..Len(records) |-> [original_text |-> records[k].text]]

\* reviews.map(...).filter(review => review.original_text.length > 0)
outscraperRows(records) ==
    SelectSeq([k \in 1..Len(records) |-> [original_text |-> TextOf(orEmpty(records[k].text))]],
              LAMBDA row : Len(row.original_text.chars) > 0)

MinElementText == 10

MinExtractedText == 5

\* text = textContent.trim() when its length is over 10, '' otherwise
extractedText(raw) ==
    IF raw.present /\ Len(raw.chars) > MinElementText THEN raw.chars ELSE <<>>

\* if (text && text.length > 5) extractedReviews.push(...)
browserRows(records) ==
    SelectSeq([k \in 1..Len(records) |-> [original_text |-> TextOf(extractedText(records[k].text))]],
              LAMBDA row : Len(row.original_text.chars) > MinExtractedText)

\* original_text TEXT NOT NULL: a row without a text makes the insert fail
notNullViolated(rows) == \E k \in 1..Len(rows) : ~rows[k].original_text.present

providerFailure == [success |-> FALSE, reviews |-> <<>>]

\* what the provider returns for the records it fetched; insertFails: the
\* database refuses the insert for a reason of its own
providerReturn(name, records, insertFails) ==
    IF name = "places"
    THEN IF insertFails \/ notNullViolated(placesRows(records))
         THEN providerFailure
         ELSE [success |-> TRUE, reviews |-> placesRows(records)]
    ELSE IF name = "outscraper"
    THEN IF Len(records) = 0 \/ Len(outscraperRows(records)) = 0 \/ insertFails
         THEN providerFailure
         ELSE [success |-> TRUE, reviews |-> outscraperRows(records)]
    ELSE IF Len(browserRows(records)) = 0 \/ insertFails
         THEN providerFailure
         ELSE [success |-> TRUE, reviews |-> browserRows(records)]

ProvidersIdle ==
    /\ fetched = <<>> /\ providerName = "none" /\ providerInsertFails = FALSE
    /\ providerResult = providerFailure /\ providerpc = "off"

ProvidersInit(recordLists) ==
    /\ fetched \in recordLists
    /\ providerName = "none" /\ providerInsertFails = FALSE
    /\ providerResult = providerFailure /\ providerpc = "fetched"

RunProvider(name, insertFails) ==
    /\ providerpc = "fetched"
    /\ providerName' = name
    /\ providerInsertFails' = insertFails
    /\ providerResult' = providerReturn(name, fetched, insertFails)
    /\ providerpc' = "done"
    /\ UNCHANGED fetched
    /\ UNCHANGED <<simVars, filterVars, hybridVars, analyzeVars, batchVars, projectVars,
                   pollVars, scrollVars, raceVars>>

-----------------------------------------------------------------------------
(* The scroll loops of the two browser scrapers: loadAllReviews (of           *)
(* scrapeGoogleReviews) and loadAllReviewsAggressive (of                      *)
(* scrapeAllGoogleReviews).  One step is one turn of the loop; the number of  *)
(* review elements in the page after the scroll is the environment's choice.  *)

\* loadAllReviews(page, maxReviews = 200)
maxReviews == 200

maxNoNewReviews == 5

\* for (let attempt = 1; attempt <= 50; attempt++)
maxScrollAttempts == 50

\* for (let i = 0; i < 100; i++)
aggressiveAttempts == 100

\* a streak that growth does not reset
streakNeverReset(streak, grew) == streak + 1

\* if (currentCount > previousCount) noNewReviewsCount = 0 else noNewReviewsCount++
streakAfter(streak, grew) == IF grew THEN 0 ELSE streak + 1

ScrollIdle ==
    /\ scrollLoop = "none" /\ scrollAttempt = 0 /\ previousCount = 0 /\ currentCount = 0
    /\ noNewReviewsCount = 0 /\ scrollThrew = FALSE /\ scrollpc = "off"

ScrollInit ==
    /\ scrollLoop \in {"loadAllReviews", "loadAllReviewsAggressive"}
    /\ scrollAttempt = 1 /\ previousCount = 0 /\ currentCount = 0
    /\ noNewReviewsCount = 0 /\ scrollThrew = FALSE /\ scrollpc = "loop"

\* one turn of loadAllReviews: scroll, count the review elements, update the
\* streak, test the two stop conditions
ScrollAndCount(count) ==
    /\ scrollpc = "loop"
    /\ scrollLoop = "loadAllReviews"
    /\ scrollAttempt <= maxScrollAttempts
    /\ currentCount' = count
    /\ noNewReviewsCount' = streakAfter(noNewReviewsCount, count > previousCount)
    /\ previousCount' = IF count > previousCount THEN count ELSE previousCount
    /\ IF count >= maxReviews \/ noNewReviewsCount' >= maxNoNewReviews
       THEN scrollpc' = "done" /\ UNCHANGED scrollAttempt
       ELSE scrollAttempt' = scrollAttempt + 1 /\ UNCHANGED scrollpc
    /\ UNCHANGED <<scrollLoop, scrollThrew>>
    /\ UNCHANGED <<simVars, filterVars, hybridVars, analyzeVars, batchVars, projectVars,
                   pollVars, providerVars, raceVars>>

\* one turn of loadAllReviewsAggressive: scroll, pause, click the buttons; the
\* loop reads no count
AggressiveScroll(count) ==
    /\ scrollpc = "loop"
    /\ scrollLoop = "loadAllReviewsAggressive"
    /\ scrollAttempt <= aggressiveAttempts
    /\ scrollAttempt' = scrollAttempt + 1
    /\ currentCount' = count
    /\ noNewReviewsCount' =
          IF count > previousCount THEN 0 ELSE minOf(noNewReviewsCount + 1, maxNoNewReviews)
    /\ previousCount' = IF count > previousCount THEN count ELSE previousCount
    /\ UNCHANGED <<scrollLoop, scrollThrew, scrollpc>>
    /\ UNCHANGED <<simVars, filterVars, hybridVars, analyzeVars, batchVars, projectVars,
                   pollVars, providerVars, raceVars>>

\* a page.evaluate of the turn rejects (the page is gone): the loop ends by the
\* exception
ScrollThrows ==
    /\ scrollpc = "loop"
    /\ scrollAttempt <= (IF scrollLoop = "loadAllReviews" THEN maxScrollAttempts
                                                          ELSE aggressiveAttempts)
    /\ scrollThrew' = TRUE
    /\ scrollpc' = "done"
    /\ UNCHANGED <<scrollLoop, scrollAttempt, previousCount, currentCount, noNewReviewsCount>>
    /\ UNCHANGED <<simVars, filterVars, hybridVars, analyzeVars, batchVars, projectVars,
                   pollVars, providerVars, raceVars>>

\* the loop condition fails
ScrollExhausted ==
    /\ scrollpc = "loop"
    /\ scrollAttempt > (IF scrollLoop = "loadAllReviews" THEN maxScrollAttempts
                                                          ELSE aggressiveAttempts)
    /\ scrollpc' = "done"
    /\ UNCHANGED <<scrollLoop, scrollAttempt, previousCount, currentCount, noNewReviewsCount,
                   scrollThrew>>
    /\ UNCHANGED <<simVars, filterVars, hybridVars, analyzeVars, batchVars, projectVars,
                   pollVars, providerVars, raceVars>>

MaxSmallCount == 10

\* the numbers of review elements the page can show
CountValues == (0..MaxSmallCount) \cup {maxReviews - 1, maxReviews}

-----------------------------------------------------------------------------
(* Two requests to POST /analysis/project/:projectId on the same project.     *)
(* A step is the code between two awaits of the handler.  Every review of the *)
(* project passes the pre-analysis filter.                                    *)

Runs == {1, 2}

NoRun == [pc |-> "idle", filteredReviews |-> <<>>, saveIndex |-> 1, analyzedCount |-> 0]

\* a final write that never lowers the counter
writeNeverLower(persisted, count) == maxOf(persisted, count)

\* .update({ status: 'completed', analyzed_reviews: analyzedCount })
writeOwnCount(persisted, count) == count

\* the reviews of the project that have at least one analysis row
analysedReviews(analyses) == {analyses[k] : k \in 1..Len(analyses)}

\* reviews.filter(review => !review.review_analyses || review.review_analyses.length === 0)
RECURSIVE withoutAnalysis(_, _, _)
withoutAnalysis(n, analyses, k) ==
    IF k > n THEN <<>>
    ELSE IF k \in analysedReviews(analyses) THEN withoutAnalysis(n, analyses, k + 1)
         ELSE <<k>> \o withoutAnalysis(n, analyses, k + 1)

RaceIdle ==
    /\ raceReviews = 0 /\ raceAnalyses = <<>> /\ raceAnalyzed = 0 /\ raceStatus = "none"
    /\ runs = [r \in Runs |-> NoRun]
    /\ reader = [seen |-> FALSE, last |-> 0, decreased |-> FALSE]

RaceInit(counts) ==
    /\ raceReviews \in counts /\ raceAnalyses = <<>> /\ raceAnalyzed = 0
    /\ raceStatus = "pending"
    /\ runs = [r \in Runs |-> NoRun]
    /\ reader = [seen |-> FALSE, last |-> 0, decreased |-> FALSE]

\* the request arrives: the select of the reviews and the filter; nothing looks
\* at the project's status or at another request
RaceSelect(r) ==
    /\ runs[r].pc = "idle"
    /\ LET filtered == withoutAnalysis(raceReviews, raceAnalyses, 1)
       IN  runs' = [runs EXCEPT ![r] =
                       [pc |-> IF filtered = <<>> THEN "done" ELSE "mark",
                        filteredReviews |-> filtered, saveIndex |-> 1, analyzedCount |-> 0]]
    /\ UNCHANGED <<raceReviews, raceAnalyses, raceAnalyzed, raceStatus, reader>>
    /\ UNCHANGED <<simVars, filterVars, hybridVars, analyzeVars, batchVars, projectVars,
                   pollVars, providerVars, scrollVars>>

\* .update({ status: 'processing' }), then the batch analysis
RaceMarkProcessing(r) ==
    /\ runs[r].pc = "mark"
    /\ raceStatus' = "processing"
    /\ runs' = [runs EXCEPT ![r].pc = "save"]
    /\ UNCHANGED <<raceReviews, raceAnalyses, raceAnalyzed, reader>>
    /\ UNCHANGED <<simVars, filterVars, hybridVars, analyzeVars, batchVars, projectVars,
                   pollVars, providerVars, scrollVars>>

\* one turn of the save loop: the insert, the count, the progress write
RaceSave(r, insertFails) ==
    /\ runs[r].pc = "save"
    /\ runs[r].saveIndex <= Len(runs[r].filteredReviews)
    /\ LET count == countAfterInsert(runs[r].analyzedCount, insertFails)
       IN  /\ raceAnalyses' = IF insertFails THEN raceAnalyses
                              ELSE Append(raceAnalyses, runs[r].filteredReviews[runs[r].saveIndex])
           /\ raceAnalyzed' = IF ~insertFails /\ count % ProgressEvery = 0
                              THEN count ELSE raceAnalyzed
           /\ runs' = [runs EXCEPT ![r].analyzedCount = count,
                                   ![r].saveIndex = runs[r].saveIndex + 1]
    /\ UNCHANGED <<raceReviews, raceStatus, reader>>
    /\ UNCHANGED <<simVars, filterVars, hybridVars, analyzeVars, batchVars, projectVars,
                   pollVars, providerVars, scrollVars>>

\* the final update and the response
RaceFinal(r) ==
    /\ runs[r].pc = "save"
    /\ runs[r].saveIndex > Len(runs[r].filteredReviews)
    /\ raceStatus' = "completed"
    /\ raceAnalyzed' = writeOwnCount(raceAnalyzed, runs[r].analyzedCount)
    /\ runs' = [runs EXCEPT ![r].pc = "done"]
    /\ UNCHANGED <<raceReviews, raceAnalyses, reader>>
    /\ UNCHANGED <<simVars, filterVars, hybridVars, analyzeVars, batchVars, projectVars,
                   pollVars, providerVars, scrollVars>>

\* GET /projects: a client reads the project's row
RaceRead ==
    /\ ~reader.seen \/ reader.last /= raceAnalyzed
    /\ reader' = [seen |-> TRUE, last |-> raceAnalyzed,
                  decreased |-> reader.decreased
                                   \/ (reader.seen /\ raceAnalyzed < reader.last)]
    /\ UNCHANGED <<raceReviews, raceAnalyses, raceAnalyzed, raceStatus, runs>>
    /\ UNCHANGED <<simVars, filterVars, hybridVars, analyzeVars, batchVars, projectVars,
                   pollVars, providerVars, scrollVars>>

MaxRaceReviews == 2

ServicesIdle == PollIdle /\ ProvidersIdle /\ ScrollIdle /\ RaceIdle

MaxFetched == 2

ShortText == <<"g","o","o","d">>

FetchedTexts == {NoText, TextOf(<<>>), TextOf(ShortText), TextOf(OkText)}

RECURSIVE RecordListsOfLen(_)
RecordListsOfLen(n) ==
    IF n = 0 THEN {<<>>}
    ELSE {Append(l, [text |-> t]) : l \in RecordListsOfLen(n - 1), t \in FetchedTexts}

RecordLists == UNION {RecordListsOfLen(n) : n \in 0..MaxFetched}

ProviderNames == {"places", "outscraper", "browser"}

InitAnalyze == AnalyzeInit /\ SimIdle /\ FilterIdle /\ HybridIdle /\ BatchIdle /\ ProjectIdle /\ ServicesIdle

NextAnalyze == CallAnalyzeReview \/ CallAnalyzeReviewFast

SpecAnalyze == InitAnalyze /\ [][NextAnalyze]_vars

InRange(result) ==
    /\ result.primary_category \in {"positive", "negative", "neutral"}
    /\ result.primary_confidence >= 0 /\ result.primary_confidence <= 100
    /\ result.sentiment_score >= -100 /\ result.sentiment_score <= 100
    /\ Len(result.secondary_categories) <= 5
    /\ Len(result.themes) <= 5
    /\ Len(result.key_phrases) <= 5

\* C2: analyzeReview and analyzeReviewFast never throw: for every text, every
\* rating that is absent or in 1..5 and every outcome of the LLM call, the call
\* returns a result whose category is positive, negative or neutral, whose
\* confidence is in [0,1], whose sentiment is in [-1,1] and whose three arrays
\* have at most 5 items.
C2_AnalyzeNeverThrowsInRange ==
    apc \in {"standard", "fast"} => ~aResult.threw /\ InRange(aResult.value)

\* a call has returned for a JSON object whose confidence is 2.5, clamped to 1
C2_Witness ==
    /\ apc \in {"standard", "fast"}
    /\ aResponse.kind = "json"
    /\ aResponse.value.t = "record"
    /\ aResponse.value.primary_confidence = JsNumber(250)
    /\ aResult.value.primary_confidence = 100

\* the response carries no valid primary_category: the parsed JSON value has
\* none, or the text that JSON.parse rejected holds none the regular expression
\* captures
noValidCategory(response) ==
    \/ /\ response.kind = "json"
       /\ LET category == IF response.value.t = "record"
                          THEN getField(response.value, "primary_category")
                          ELSE JsUndefined
          IN  ~(category.t = "string" /\ category.s \in validCategories)
    \/ /\ response.kind = "malformed"
       /\ response.categoryMatch = "none"

\* C21: on both parse paths, a response without a valid primary_category yields
\* the category inferred from the rating (positive for 4 and 5, negative for 1
\* and 2, neutral for 3 and for no rating).
C21_NoCategoryGivesRatingCategory ==
    (apc \in {"standard", "fast"} /\ noValidCategory(aResponse))
        => aResult.value.primary_category = inferCategoryFromRating(aRating)

\* C28: the summary of every result of analyzeReview and analyzeReviewFast is
\* non-empty and has at most 200 characters.
C28_SummaryNonEmptyAtMost200 ==
    apc \in {"standard", "fast"}
        => /\ aResult.value.summary.len > 0
           /\ aResult.value.summary.len <= MaxSummaryLength

InitBatch == BatchInit(BatchLists, 1..MaxConcurrency) /\ SimIdle /\ FilterIdle /\ HybridIdle /\ AnalyzeIdle /\ ProjectIdle /\ ServicesIdle

NextBatch ==
    \/ StartWindow
    \/ \E p \in 1..MaxBatchReviews, response \in BatchResponses : RequestSettles(p, response)
    \/ WindowDone
    \/ DelayElapses
    \/ BatchReturn

SpecBatch == InitBatch /\ [][NextBatch]_vars

InputIds == {bReviews[p].id : p \in 1..Len(bReviews)}

\* C1: when a batch call on reviews with distinct ids and a concurrency of at
\* least 1 returns, whatever calls failed, the returned list holds every input
\* id exactly once and no other id.
C1_EveryIdExactlyOnce ==
    bpc = "done" =>
        /\ \A id \in InputIds :
              Cardinality({k \in 1..Len(bResults) : bResults[k].id = id}) = 1
        /\ \A k \in 1..Len(bResults) : bResults[k].id \in InputIds

\* a call on three reviews in windows of two has returned after a request threw
C1_Witness ==
    /\ bpc = "done"
    /\ Len(bReviews) = 3
    /\ bConcurrency = 2
    /\ \E p \in DOMAIN bOutcome : bOutcome[p] = "throw"

\* C3: the requests in flight all belong to the current window of bConcurrency
\* consecutive reviews and every request of the earlier windows has completed,
\* so at most bConcurrency requests are in flight at any moment.
C3_WindowsBoundInFlight ==
    /\ Cardinality(bPending) <= bConcurrency
    /\ bPending \subseteq (bi + 1)..(bi + bConcurrency)
    /\ bPending /= {} => \A q \in 1..bi : q \in DOMAIN bOutcome /\ q \notin bPending

\* the second window of a call is in flight with as many requests as the
\* concurrency, which is less than the number of reviews left at the start
C3_Witness ==
    /\ bi > 0
    /\ bConcurrency = 2
    /\ Len(bReviews) = 3
    /\ bPending = {3}

FailureKinds == {"throw", "empty", "malformed"}

ResultOf(id) == CHOOSE k \in 1..Len(bResults) : bResults[k].id = id

\* C4: a review whose analysis failed (the call threw, or answered nothing or
\* text that is not JSON) has the rating-derived fallback result in the returned
\* list, and the other reviews have results of their own.
C4_FailedGetsRatingFallback ==
    bpc = "done" =>
        \A p \in 1..Len(bReviews) :
            /\ \E k \in 1..Len(bResults) : bResults[k].id = bReviews[p].id
            /\ bOutcome[p] \in FailureKinds =>
                  LET analysis == bResults[ResultOf(bReviews[p].id)].analysis
                      rating == bReviews[p].rating
                  IN  /\ analysis.primary_category = inferCategoryFromRating(rating)
                      /\ analysis.sentiment_score =
                            (IF rating = NoRating THEN 0 ELSE (rating - 3) * 50)

InitProject == ProjectInit /\ SimIdle /\ FilterIdle /\ HybridIdle /\ AnalyzeIdle /\ BatchIdle /\ ServicesIdle

NextProject ==
    \/ \E googleUrl \in BOOLEAN, insertFails \in BOOLEAN : CreateProject(googleUrl, insertFails)
    \/ CreateMarkProcessing
    \/ \E items \in ScrapeLists : CreateScrape(TRUE, items)
    \/ CreateScrape(FALSE, <<>>)
    \/ \E outcome \in UpdateOutcomes : CreateFinal(outcome)
    \/ \E item \in TestPool, response \in ProjectResponses, analysisFails \in BOOLEAN :
          /\ Len(reviewsTable) < MaxProjectReviews
          /\ AddTestReview(item, response, analysisFails)
    \/ \E totalCountFails \in BOOLEAN, analyzedCountFails \in BOOLEAN :
          GetProject(totalCountFails, analyzedCountFails)
    \/ \E mode \in {"fast", "ultra"}, selectFails \in BOOLEAN : StartAnalysis(mode, selectFails)
    \/ AnalysisMarkProcessing
    \/ \E responses \in [1..Len(filteredReviews) -> ProjectResponses] : AnalysisBatch(responses)
    \/ \E insertFails \in BOOLEAN : AnalysisSave(insertFails)
    \/ \E outcome \in UpdateOutcomes : AnalysisFinal(outcome)

SpecProject == InitProject /\ [][NextProject]_vars

StatusChanges == {<<"pending", "processing">>, <<"processing", "completed">>,
                  <<"processing", "error">>}

C11_ReturnedCompletedOrError ==
    (ppc = "idle" /\ projectStatus /= "absent") => projectStatus /= "processing"

\* C12: in every state of a project the persisted analyzed_reviews is at most
\* the persisted total_reviews.
C12_AnalyzedAtMostTotal == analyzed_reviews <= total_reviews

analysesOf(reviewId) == {k \in 1..Len(analysesTable) : analysesTable[k].review_id = reviewId}

\* C13: after any sequence of analysis runs that do not overlap, re-runs and
\* runs with failed writes included, every review has at most one row in
\* review_analyses.
C13_AtMostOneAnalysisPerReview ==
    \A r \in 1..Len(reviewsTable) : Cardinality(analysesOf(reviewsTable[r].id)) <= 1

\* a re-run has analysed the one review that the first run failed to save: two
\* ingested reviews, two analyses, and a final count of one
C13_Witness ==
    /\ ppc = "idle"
    /\ projectStatus = "completed"
    /\ scrapeOutcome.count = 2
    /\ Len(analysesTable) = 2
    /\ "reviewCount" \in DOMAIN httpResponse
    /\ httpResponse.reviewCount = 1
    /\ analyzed_reviews = 1

noReviewLacksAnalysis ==
    \A r \in 1..Len(reviewsTable) : analysesOf(reviewsTable[r].id) /= {}

\* C14: an analysis request (either mode) on a project in which no review lacks
\* an analysis starts no run, answers reviewCount 0 and issues no chat
\* completion request.
C14_NothingToAnalyzeNoLlmCall ==
    [][(ppc = "idle" /\ projectStatus /= "absent" /\ noReviewLacksAnalysis)
          => /\ ppc' = "idle"
             /\ "reviewCount" \in DOMAIN httpResponse'
                   => (httpResponse'.reviewCount = 0 /\ llmCalls' = 0)]_vars

\* an analysis request has answered on a project whose reviews all have an
\* analysis
C14_Witness ==
    /\ ppc = "idle"
    /\ Len(reviewsTable) > 0
    /\ noReviewLacksAnalysis
    /\ "skipped" \in DOMAIN httpResponse
    /\ httpResponse.reviewCount = 0
    /\ llmCalls = 0

\* the run that has just answered went through its save loop
runHasFinished ==
    /\ ppc = "idle"
    /\ "reviewCount" \in DOMAIN httpResponse
    /\ httpResponse.message = "Successfully analyzed"

\* the reviews without an analysis that filterReviewsForAnalysis drops
excludedByFilter ==
    LET unanalyzed == unanalyzedFrom(reviewsTable, analysesTable, 1)
    IN  Len(unanalyzed) - Len(filterReviewsForAnalysis(unanalyzed))

\* C15: after every analysis run that finishes (its final update applied) on a
\* project whose ingest set total_reviews, the project is completed and
\* total_reviews - analyzed_reviews is the number of the project's reviews that
\* the filter excluded from analysis.
C15_DifferenceIsFilteredCount ==
    (runHasFinished /\ finalUpdate = "ok" /\ totalSetByIngest)
        => /\ projectStatus = "completed"
           /\ total_reviews - analyzed_reviews = excludedByFilter

analysisRunning == ppc \in {"analysis_mark", "analysis_batch", "analysis_save"}

\* C16: while an analysis run is under way, a re-run included, no write lowers
\* the persisted analyzed_reviews that a polling client reads.
C16_AnalyzedNeverDecreasesInRun ==
    [][analysisRunning => analyzed_reviews' >= analyzed_reviews]_vars

writtenOfRun ==
    Cardinality({k \in 1..Len(analysisResults) :
                    hasAnalysis(analysesTable, analysisResults[k].id)})

runAnswered ==
    /\ ppc = "idle"
    /\ "reviewCount" \in DOMAIN httpResponse
    /\ Len(reviewsTable) > 0

\* C22: an analysis run that ends without a fatal error and with zero analyses
\* (every unanalysed review filtered out, or none left) leaves the project
\* completed, not pending or processing.
C22_ZeroAnalysesStillCompleted ==
    (runAnswered /\ httpResponse.reviewCount = 0 /\ finalUpdate /= "error")
        => projectStatus = "completed"

\* C23: every successful response of an analysis run, in either mode, with or
\* without analysed reviews, carries the number of reviews the filter skipped.
C23_ResponseCarriesSkipped ==
    runAnswered => ("skipped" \in DOMAIN httpResponse \/ "skippedCount" \in DOMAIN httpResponse)

InitSimilar == SimInit /\ FilterIdle /\ HybridIdle /\ AnalyzeIdle /\ BatchIdle /\ ProjectIdle /\ ServicesIdle

NextSimilar == CompareTexts

SpecSimilar == InitSimilar /\ [][NextSimilar]_vars

\* rule (a): the shorter text, compared case-insensitively, is a substring of the longer
SubstringRule(t1, t2) ==
    LET l1 == toLowerCase(t1)
        l2 == toLowerCase(t2)
    IN  \/ Len(l1) <= Len(l2) /\ includes(l2, l1)
        \/ Len(l2) <= Len(l1) /\ includes(l1, l2)

\* rule (b): the tokens of t1 that occur among the tokens of t2, over the smaller of
\* the two token counts, exceed 0.7 (tokens are compared in lower case)
OverlapRule(t1, t2) ==
    LET w1 == splitWhitespace(toLowerCase(t1))
        w2 == splitWhitespace(toLowerCase(t2))
        shared == Cardinality({k \in 1..Len(w1) : \E j \in 1..Len(w2) : w2[j] = w1[k]})
        smaller == IF Len(w1) <= Len(w2) THEN Len(w1) ELSE Len(w2)
    IN  10 * shared > 7 * smaller

\* C29: the similarity relation is symmetric: areSimilarReviews(t1, t2) equals
\* areSimilarReviews(t2, t1) for all texts, also when a text repeats a token.
C29_SimilaritySymmetric ==
    simResult \in {"similar", "different"} =>
        /\ (simResult = "similar") = areSimilarReviews(text1, text2)
        /\ areSimilarReviews(text1, text2) = areSimilarReviews(text2, text1)

-----------------------------------------------------------------------------
(* The ingestion filter on its own *)

InitFilter == FilterInit /\ SimIdle /\ HybridIdle /\ AnalyzeIdle /\ BatchIdle /\ ProjectIdle /\ ServicesIdle

NextFilter == FilterOnce \/ FilterAgain

SpecFilter == InitFilter /\ [][NextFilter]_vars

\* the letters of a text, in either case
alphabeticCount(text) ==
    Cardinality({k \in 1..Len(text) :
        \/ \E j \in 1..Len(LowerCaseLetters) : LowerCaseLetters[j] = text[k]
        \/ \E j \in 1..Len(UpperCaseLetters) : UpperCaseLetters[j] = text[k]})

\* the three drop conditions of the filter's contract
DropCondition(review) ==
    \/ Len(toLowerCase(review.original_text)) < 10
    \/ toLowerCase(review.original_text) \in spamPatterns
    \/ alphabeticCount(review.original_text) < 5

\* the positions of the input the contract keeps
KeptPositions(reviews) == {k \in 1..Len(reviews) : ~DropCondition(reviews[k])}

C9_FilterIdempotent == fpc = "twice" => fTwice = fOnce

\* both passes done on a list from which the first pass dropped a review and kept one
C9_Witness ==
    /\ fpc = "twice"
    /\ Len(fOnce) >= 1
    /\ Len(fOnce) < Len(fReviews)

-----------------------------------------------------------------------------
(* The hybrid ingest on its own *)

InitHybrid == HybridInit /\ SimIdle /\ FilterIdle /\ AnalyzeIdle /\ BatchIdle /\ ProjectIdle /\ ServicesIdle

NextHybrid ==
    \/ \E texts \in PlacesLists : PlacesSucceeds(texts)
    \/ PlacesFails
    \/ \E texts \in ScrapedLists : ScrapingSucceeds(texts)
    \/ ScrapingFails
    \/ ScrapingThrows
    \/ \E insertFails \in BOOLEAN : MergeScraped(insertFails)
    \/ HybridReturn

SpecHybrid == InitHybrid /\ [][NextHybrid]_vars

\* the number of reviews a provider returned (none when it failed)
ReturnedCount(result) == IF result.success THEN Len(result.reviews) ELSE 0

\* C27: the hybrid ingest reports success whenever at least one of its two
\* providers returned at least one review, and a result with success = false
\* carries an error description (the error of the catch, or the list of the
\* providers' errors).
C27_SuccessWithAnyProviderReviews ==
    hpc = "done" =>
        /\ (ReturnedCount(placesResult) > 0 \/ ReturnedCount(scrapingResult) > 0)
              => hybridResult.success
        /\ ~hybridResult.success => (hybridResult.hasError \/ hybridResult.hasErrors)

SimilarToApi ==
    {j \in 1..Len(scrapingResult.reviews) :
        \E i \in 1..Len(placesResult.reviews) :
            areSimilarReviews(placesResult.reviews[i].original_text,
                              scrapingResult.reviews[j].original_text)}

\* the texts of the scraped records that are not similar to any record of the
\* structured API, in the scraper's order
RECURSIVE NotSimilarToApiFrom(_)
NotSimilarToApiFrom(j) ==
    IF j > Len(scrapingResult.reviews) THEN <<>>
    ELSE IF j \in SimilarToApi THEN NotSimilarToApiFrom(j + 1)
         ELSE <<scrapingResult.reviews[j].original_text>> \o NotSimilarToApiFrom(j + 1)

InitPoll ==
    /\ PollInit /\ ProvidersIdle /\ ScrollIdle /\ RaceIdle
    /\ SimIdle /\ FilterIdle /\ HybridIdle /\ AnalyzeIdle /\ BatchIdle /\ ProjectIdle

NextPoll ==
    \/ \E answer \in PollAnswers : PollRequest(answer)
    \/ PollWaitElapses
    \/ PollExhausted

\* every request ends within its axios timeout and every pause is a timer, so a
\* step that is enabled is taken
SpecPoll == InitPoll /\ [][NextPoll]_vars /\ WF_vars(NextPoll)

reportedSuccess(answer) == answer.kind = "response" /\ answer.data = "Success"

reportedFailed(answer) == answer.kind = "response" /\ answer.data = "Failed"

TimeoutErrors == {"Polling timeout - results not ready", "Polling timeout - max attempts reached"}

PollOutcomeRight ==
    /\ pollRequests <= maxAttempts
    /\ pollResult.returned <=> pollpc = "done"
    /\ pollResult.returned =>
          /\ pollResult.success => reportedSuccess(pollAnswer)
          /\ reportedFailed(pollAnswer) <=>
                (~pollResult.success /\ pollResult.error = "Outscraper processing failed")
          /\ (~pollResult.success /\ ~reportedFailed(pollAnswer)) =>
                (pollResult.error \in TimeoutErrors /\ pollRequests = maxAttempts)
    /\ reportedFailed(pollAnswer) => pollResult.returned

\* C18: pollForResults returns, after at most 12 requests, whatever the answers
\* are: success only when the last poll reported Success, the processing failure
\* as soon as a poll reports Failed, a timeout error when the 12 attempts are
\* used up; and once it has returned it issues no further request.
C18_PollTerminatesWithinAttempts ==
    /\ []PollOutcomeRight
    /\ [][pollpc = "done" => (pollRequests' = pollRequests /\ pollResult' = pollResult)]_vars
    /\ <>(pollpc = "done")

\* twelve requests that all were answered and none terminal: the timeout after
\* the loop, with every pause taken
C18_Witness ==
    /\ pollpc = "done"
    /\ pollRequests = maxAttempts
    /\ ~pollResult.success
    /\ pollResult.error = "Polling timeout - max attempts reached"
    /\ pollWaited = 285

\* the pause of a backoff that starts at 5 seconds, doubles with every attempt
\* and is capped at 30 seconds
exponentialWait(attempt) == minOf(5 * 2 ^ (attempt - 1), 30)

pausedAfterEveryPoll ==
    (pollpc = "request" /\ pollRequests' = pollRequests + 1 /\ pollpc' /= "done")
        => pollpc' = "wait"

pauseIsExponential ==
    (pollpc = "wait" /\ pollpc' = "request")
        => /\ pollWaited' - pollWaited <= 30
           /\ pollWaited' - pollWaited = exponentialWait(pollAttempt)

\* C24: pollForResults pauses after every poll that was not terminal, whether it
\* answered pending or failed with a request error; the pause grows exponentially
\* with the attempt and is never longer than 30 seconds.
C24_ExponentialBackoff ==
    [][pausedAfterEveryPoll /\ pauseIsExponential]_vars

InitProviders ==
    /\ ProvidersInit(RecordLists) /\ PollIdle /\ ScrollIdle /\ RaceIdle
    /\ SimIdle /\ FilterIdle /\ HybridIdle /\ AnalyzeIdle /\ BatchIdle /\ ProjectIdle

NextProviders == \E name \in ProviderNames, insertFails \in BOOLEAN : RunProvider(name, insertFails)

SpecProviders == InitProviders /\ [][NextProviders]_vars

hasText(record) == record.text.present /\ record.text.chars /= <<>>

\* C19: every review a provider persists and returns has a non-empty text, and
\* the fetched records without text are dropped without making the provider
\* fail: when some fetched record has text, the provider returns what it returns
\* for the records that have text.
C19_PersistedTextNonEmpty ==
    providerpc = "done" =>
        /\ \A k \in 1..Len(providerResult.reviews) :
              /\ providerResult.reviews[k].original_text.present
              /\ providerResult.reviews[k].original_text.chars /= <<>>
        /\ SelectSeq(fetched, hasText) /= <<>> =>
              providerResult =
                 providerReturn(providerName, SelectSeq(fetched, hasText), providerInsertFails)

InitScroll ==
    /\ ScrollInit /\ PollIdle /\ ProvidersIdle /\ RaceIdle
    /\ SimIdle /\ FilterIdle /\ HybridIdle /\ AnalyzeIdle /\ BatchIdle /\ ProjectIdle

NextScroll ==
    \/ \E count \in CountValues : ScrollAndCount(count)
    \/ \E count \in CountValues : AggressiveScroll(count)
    \/ ScrollThrows
    \/ ScrollExhausted

\* every turn is made of timers and page calls that resolve or reject, so a
\* step that is enabled is taken
SpecScroll == InitScroll /\ [][NextScroll]_vars /\ WF_vars(NextScroll)

InitRace ==
    /\ RaceInit(1..MaxRaceReviews) /\ PollIdle /\ ProvidersIdle /\ ScrollIdle
    /\ SimIdle /\ FilterIdle /\ HybridIdle /\ AnalyzeIdle /\ BatchIdle /\ ProjectIdle

NextRace ==
    \/ \E r \in Runs : RaceSelect(r)
    \/ \E r \in Runs : RaceMarkProcessing(r)
    \/ \E r \in Runs, insertFails \in BOOLEAN : RaceSave(r, insertFails)
    \/ \E r \in Runs : RaceFinal(r)
    \/ RaceRead

SpecRace == InitRace /\ [][NextRace]_vars

\* both requests are between their select and their final update
bothActive == \A r \in Runs : runs[r].pc \in {"mark", "save"}

\* C26: nothing keeps two analysis runs of one project from being active at
\* once, and their writes of the progress counter race: each final update
\* stores the writing run's own count whatever the row holds, so that an
\* execution is reachable in which analyzed_reviews decreases between two reads
\* and ends different from the number of reviews that have an analysis.
C26_LastWriterWins ==
    [][\A r \in Runs :
          (runs[r].pc = "save" /\ runs'[r].pc = "done")
              => raceAnalyzed' = runs[r].analyzedCount]_vars

\* two runs that overlapped (a review has two analysis rows, which a select
\* made after the first row excludes) have both finished without a refused
\* insert; a client saw the counter decrease, and the counter ends different
\* from the number of reviews that have an analysis
C26_Witness ==
    /\ \A r \in Runs : runs[r].pc = "done" /\ runs[r].filteredReviews /= <<>>
    /\ \A r \in Runs : runs[r].analyzedCount = Len(runs[r].filteredReviews)
    /\ Len(raceAnalyses) > Cardinality(analysedReviews(raceAnalyses))
    /\ reader.decreased
    /\ reader.seen /\ reader.last = raceAnalyzed
    /\ raceAnalyzed /= Cardinality(analysedReviews(raceAnalyses))

====
